---- MODULE Spec2Model ----
(***************************************************************************)
(* The Data Center Intelligence Dashboard (streamlit_app.py): one script   *)
(* that is run top to bottom on every render.  Each of its three tabs      *)
(* issues one warehouse query, filters the fetched rows by the widget      *)
(* selections, derives aggregates and hands tables and charts to the page. *)
(*                                                                         *)
(* Numbers.  Columns hold integers: TOTAL_POWER_KW, COOLING_KW and         *)
(* AVG_POWER_KW in kW, AVG_TEMP_C in degrees, PUE and EFFICIENCY in        *)
(* hundredths (PUE 1.3 is 130, efficiency 0.62 is 62).  Derived values     *)
(* (means, quotients, axis bounds) are exact rationals or one of the       *)
(* special values pandas produces: NaN, pd.NA, +inf, -inf.                 *)
(* Time.  A TIME_WINDOW is a count of ticks; a day has TicksPerDay ticks;  *)
(* a date is a day number.  Identifiers (facility, datacenter, rack) are   *)
(* small integers: facility 1 is "F01".                                    *)
(***************************************************************************)
EXTENDS Integers, Sequences, FiniteSets, TLC

\* ------------------------------------------------------------------ bounds
MaxDay == 1
TicksPerDay == 2
MaxRows == 4
MaxChanged == 1

Dates == 0..MaxDay
NaT == -1

\* ------------------------------------------------------------ float values
Abs(n) == IF n < 0 THEN -n ELSE n

RECURSIVE GCD(_, _)
GCD(a, b) == IF b = 0 THEN a ELSE GCD(b, a % b)

\* The rational n/d (d # 0) in lowest terms with a positive denominator.
Num(n, d) ==
    LET g == GCD(Abs(n), Abs(d))
        s == IF d < 0 THEN -1 ELSE 1
    IN  [k |-> "num", num |-> (s * n) \div g, den |-> Abs(d) \div g]

Int2V(n) == Num(n, 1)
NaN == [k |-> "nan", num |-> 0, den |-> 1]
NA == [k |-> "NA", num |-> 0, den |-> 1]
PosInf == [k |-> "inf", num |-> 1, den |-> 1]
NegInf == [k |-> "inf", num |-> -1, den |-> 1]

IsMissing(v) == v.k \in {"nan", "NA"}

\* a < b on floats; any comparison with a missing value is False.
Less(a, b) ==
    CASE IsMissing(a) \/ IsMissing(b) -> FALSE
      [] a.k = "inf" -> a.num < 0 /\ ~(b.k = "inf" /\ b.num < 0)
      [] b.k = "inf" -> b.num > 0
      [] OTHER -> a.num * b.den < b.num * a.den

\* Series.replace(0, pd.NA) on one value.
Replace0(v) == IF v.k = "num" /\ v.num = 0 THEN NA ELSE v

\* a / b as pandas computes it: pd.NA and NaN propagate, x/0 is +-inf or NaN.
Div(a, b) ==
    CASE a.k = "NA" \/ b.k = "NA" -> NA
      [] a.k = "nan" \/ b.k = "nan" -> NaN
      [] b.k = "inf" -> IF a.k = "inf" THEN NaN ELSE Int2V(0)
      [] a.k = "inf" -> IF b.num < 0 THEN [a EXCEPT !.num = -a.num] ELSE a
      [] b.num = 0 -> IF a.num > 0 THEN PosInf
                      ELSE IF a.num < 0 THEN NegInf ELSE NaN
      [] OTHER -> Num(a.num * b.den, a.den * b.num)

\* v * (n/d) and v + i for a float v; missing values and infinities propagate.
Scale(v, n, d) == IF v.k = "num" THEN Num(v.num * n, v.den * d) ELSE v

Plus(v, i) == IF v.k = "num" THEN Num(v.num + i * v.den, v.den) ELSE v

\* numpy's round-half-even of a / b (b > 0).
RoundDiv(a, b) ==
    LET q == a \div b
        r == a % b
    IN  IF 2 * r < b THEN q
        ELSE IF 2 * r > b THEN q + 1
        ELSE IF q % 2 = 0 THEN q ELSE q + 1

\* DataFrame.round(3) of a value held in units of 1/unit (unit 1 or 100).
Round3(v, unit) ==
    IF v.k # "num" THEN v
    ELSE Num(RoundDiv(v.num * 1000, v.den * unit) * unit, 1000)

\* --------------------------------------------------------- series helpers
RECURSIVE SumSeq(_)
SumSeq(s) == IF s = <<>> THEN 0 ELSE Head(s) + SumSeq(Tail(s))

\* Series.sum() and Series.mean() of an integer column; the mean of an
\* empty column is NaN.
SeriesSum(s) == Int2V(SumSeq(s))

SeriesMean(s) == IF Len(s) = 0 THEN NaN ELSE Num(SumSeq(s), Len(s))

\* Series.min() / Series.max() with skipna: NaN when nothing is left.
SeriesMin(s) ==
    LET P == {i \in DOMAIN s : ~IsMissing(s[i])}
    IN  IF P = {} THEN NaN
        ELSE s[CHOOSE i \in P : \A j \in P : ~Less(s[j], s[i])]

SeriesMax(s) ==
    LET P == {i \in DOMAIN s : ~IsMissing(s[i])}
    IN  IF P = {} THEN NaN
        ELSE s[CHOOSE i \in P : \A j \in P : ~Less(s[i], s[j])]

Col(df, c) == [i \in 1..Len(df) |-> df[i][c]]

ColV(df, c) == [i \in 1..Len(df) |-> Int2V(df[i][c])]

\* Series.unique().tolist(): the values in order of first appearance.
Unique(s) ==
    LET first == {i \in DOMAIN s : \A j \in 1..(i - 1) : s[j] # s[i]}
    IN  [k \in 1..Cardinality(first) |->
            s[CHOOSE i \in first : Cardinality({j \in first : j <= i}) = k]]

Range(s) == {s[i] : i \in 1..Len(s)}

\* The keys of a groupby, ascending (sort=True).
RECURSIVE SortedKeys(_)
SortedKeys(S) ==
    IF S = {} THEN <<>>
    ELSE LET m == CHOOSE x \in S : \A y \in S : x <= y
         IN  <<m>> \o SortedKeys(S \ {m})

\* The rows of df whose column c equals key, in order.
Group(df, c, key) == SelectSeq(df, LAMBDA r : r[c] = key)

\* sort_values("TIME_WINDOW", ascending=False): descending, rows of equal
\* TIME_WINDOW keep their order.
SortDesc(df) ==
    LET place == [i \in DOMAIN df |->
                    1 + Cardinality({j \in DOMAIN df :
                                        \/ df[j].TIME_WINDOW > df[i].TIME_WINDOW
                                        \/ /\ df[j].TIME_WINDOW = df[i].TIME_WINDOW
                                           /\ j < i})]
    IN  [k \in DOMAIN df |-> df[CHOOSE i \in DOMAIN df : place[i] = k]]

\* sort_values("avg_pue", ascending=True), stable.
RECURSIVE InsertAscPue(_, _)
InsertAscPue(sorted, r) ==
    IF sorted = <<>> THEN <<r>>
    ELSE LET last == sorted[Len(sorted)]
         IN  IF ~Less(r.avg_pue, last.avg_pue) THEN Append(sorted, r)
             ELSE Append(InsertAscPue(SubSeq(sorted, 1, Len(sorted) - 1), r), last)

RECURSIVE SortAscPue(_)
SortAscPue(df) ==
    IF df = <<>> THEN <<>>
    ELSE InsertAscPue(SortAscPue(SubSeq(df, 1, Len(df) - 1)), df[Len(df)])

\* DataFrame.head(n).
HeadRowsAll(df, n) == df

HeadRows(df, n) == SubSeq(df, 1, IF Len(df) < n THEN Len(df) ELSE n)

\* ------------------------------------------------------------ date filter
\* pd.to_datetime(date): midnight of that day.
to_datetime(d) == IF d = NaT THEN NaT ELSE d * TicksPerDay

\* Timestamp.date().
date(tw) == IF tw = NaT THEN NaT ELSE tw \div TicksPerDay

\* Series.between(left, right) on one timestamp, inclusive="both"; a
\* comparison with NaT is False.
betweenExclusiveRight(tw, left, right) ==
    left # NaT /\ right # NaT /\ left <= tw /\ tw < right

between(tw, left, right) ==
    left # NaT /\ right # NaT /\ left <= tw /\ tw <= right

\* [df["TIME_WINDOW"].min().date(), df["TIME_WINDOW"].max().date()]: the
\* default of the date picker; NaT on an empty frame.  The frames are in
\* TIME_WINDOW order only as fetched, so min and max are computed.
DefaultRange(df) ==
    IF df = <<>> THEN <<NaT, NaT>>
    ELSE LET T == {df[i].TIME_WINDOW : i \in 1..Len(df)}
         IN  <<date(CHOOSE t \in T : \A u \in T : t <= u),
               date(CHOOSE t \in T : \A u \in T : t >= u)>>

DateFilter(df, date_range) ==
    SelectSeq(df, LAMBDA r : between(r.TIME_WINDOW, to_datetime(date_range[1]),
                                     to_datetime(date_range[2])))

\* -------------------------------------------------------------- warehouse
\* The tick of a time bucket on a given day.
At(day, tick) == day * TicksPerDay + tick

\* DIM_FACILITY: the datacenter of each facility.
DIM_FACILITY == [f \in {1, 2} |-> f]

\* Rows the three GOLD tables are drawn from, in TIME_WINDOW order.
DatacenterRows ==
    << [DATACENTER_ID |-> 1, TIME_WINDOW |-> At(0, 0), TOTAL_POWER_KW |-> 100,
        COOLING_KW |-> 30, PUE |-> 130, EFFICIENCY |-> 77],
       [DATACENTER_ID |-> 2, TIME_WINDOW |-> At(0, 0), TOTAL_POWER_KW |-> 80,
        COOLING_KW |-> 40, PUE |-> 150, EFFICIENCY |-> 67],
       [DATACENTER_ID |-> 1, TIME_WINDOW |-> At(0, 1), TOTAL_POWER_KW |-> 110,
        COOLING_KW |-> 33, PUE |-> 131, EFFICIENCY |-> 76],
       [DATACENTER_ID |-> 2, TIME_WINDOW |-> At(1, 0), TOTAL_POWER_KW |-> 90,
        COOLING_KW |-> 45, PUE |-> 160, EFFICIENCY |-> 62] >>

FacilityRows ==
    << [FACILITY_ID |-> 1, TIME_WINDOW |-> At(0, 0), TOTAL_POWER_KW |-> 10,
        AVG_TEMP_C |-> 20, RACKS_ACTIVE |-> 5, PUE |-> 129],
       [FACILITY_ID |-> 2, TIME_WINDOW |-> At(0, 0), TOTAL_POWER_KW |-> 30,
        AVG_TEMP_C |-> 22, RACKS_ACTIVE |-> 0, PUE |-> 130],
       [FACILITY_ID |-> 1, TIME_WINDOW |-> At(0, 1), TOTAL_POWER_KW |-> 20,
        AVG_TEMP_C |-> 31, RACKS_ACTIVE |-> 0, PUE |-> 131],
       [FACILITY_ID |-> 2, TIME_WINDOW |-> At(0, 1), TOTAL_POWER_KW |-> 40,
        AVG_TEMP_C |-> 28, RACKS_ACTIVE |-> 0, PUE |-> 199],
       [FACILITY_ID |-> 1, TIME_WINDOW |-> At(1, 0), TOTAL_POWER_KW |-> 100,
        AVG_TEMP_C |-> 25, RACKS_ACTIVE |-> 5, PUE |-> 160],
       [FACILITY_ID |-> 2, TIME_WINDOW |-> At(1, 0), TOTAL_POWER_KW |-> 0,
        AVG_TEMP_C |-> 35, RACKS_ACTIVE |-> 4, PUE |-> 159],
       [FACILITY_ID |-> 1, TIME_WINDOW |-> At(1, 1), TOTAL_POWER_KW |-> 0,
        AVG_TEMP_C |-> 30, RACKS_ACTIVE |-> 0, PUE |-> 200] >>

RackRows ==
    << [FACILITY_ID |-> 1, RACK_ID |-> 1, TIME_WINDOW |-> At(0, 0), AVG_TEMP_C |-> 35,
        AVG_POWER_KW |-> 4, EFFICIENCY |-> 90, PUE |-> 150],
       [FACILITY_ID |-> 1, RACK_ID |-> 2, TIME_WINDOW |-> At(0, 0), AVG_TEMP_C |-> 20,
        AVG_POWER_KW |-> 5, EFFICIENCY |-> 50, PUE |-> 140],
       [FACILITY_ID |-> 2, RACK_ID |-> 3, TIME_WINDOW |-> At(0, 1), AVG_TEMP_C |-> 30,
        AVG_POWER_KW |-> 6, EFFICIENCY |-> 62, PUE |-> 130],
       [FACILITY_ID |-> 2, RACK_ID |-> 3, TIME_WINDOW |-> At(1, 0), AVG_TEMP_C |-> 31,
        AVG_POWER_KW |-> 7, EFFICIENCY |-> 61, PUE |-> 170],
       [FACILITY_ID |-> 1, RACK_ID |-> 2, TIME_WINDOW |-> At(1, 0), AVG_TEMP_C |-> 30,
        AVG_POWER_KW |-> 5, EFFICIENCY |-> 61, PUE |-> 160],
       [FACILITY_ID |-> 2, RACK_ID |-> 4, TIME_WINDOW |-> At(1, 1), AVG_TEMP_C |-> 31,
        AVG_POWER_KW |-> 8, EFFICIENCY |-> 62, PUE |-> 155] >>

\* The preview tables show head(50).
PreviewRows == 50

\* A FACILITY_SUMMARY of n rows: both facilities report in every time bucket
\* from the first bucket of the first day on, in TIME_WINDOW order.
HourlyRows(n) ==
    [i \in 1..n |->
        [FACILITY_ID |-> 1 + ((i - 1) % 2),
         TIME_WINDOW |-> (i - 1) \div 2,
         TOTAL_POWER_KW |-> i,
         AVG_TEMP_C |-> 20 + (i % 3),
         RACKS_ACTIVE |-> i % 2,
         PUE |-> 120 + i]]

\* The rows of s at the positions in I, in order.
RECURSIVE PickRows(_, _, _)
PickRows(s, I, i) ==
    IF i > Len(s) THEN <<>>
    ELSE (IF i \in I THEN <<s[i]>> ELSE <<>>) \o PickRows(s, I, i + 1)

\* The tables of at most MaxRows rows a query can return from those rows.
Tables(rows) ==
    {PickRows(rows, I, 1) : I \in {J \in SUBSET (1..Len(rows)) : Cardinality(J) <= MaxRows}}

\* ------------------------------------------------------------------ state
VARIABLES
    DATACENTER_EFFICIENCY,  \* result of query_dc
    FACILITY_SUMMARY,       \* rows of FACILITY_SUMMARY, before the join
    RACK_PERFORMANCE,       \* result of query_rack
    session_state,          \* the widget values, by widget key
    pc,                     \* the script's position: "tab1", "tab2", "tab3", "done", "failed"
    queries,                \* the queries issued in this render, in order
    error,                  \* the call whose exception ended this render, or "none"
    page,                   \* the elements handed to the page in this render
    tab1,                   \* the names tab 1 assigns
    tab2,                   \* the names tab 2 assigns
    tab3,                   \* the names tab 3 assigns
    last_page               \* the page of the previous render, if it ran to its end
                            \* with the same data and selections

vars == <<DATACENTER_EFFICIENCY, FACILITY_SUMMARY, RACK_PERFORMANCE, session_state,
          pc, queries, error, page, tab1, tab2, tab3, last_page>>

warehouse == <<DATACENTER_EFFICIENCY, FACILITY_SUMMARY, RACK_PERFORMANCE>>

\* --------------------------------------------------------------- widgets
\* A widget the user has not touched returns its default.
Untouched(v) == [touched |-> FALSE, value |-> v]

Widget(w, default) == IF w.touched THEN w.value ELSE default

DateRanges == {<<a, b>> \in Dates \X Dates : a <= b}

InitialSession ==
    [dc_select |-> Untouched({}),
     dc_date |-> Untouched(<<NaT, NaT>>),
     fac_filter_type |-> Untouched("Facility"),
     fac_dc |-> Untouched(0),
     fac_facility |-> Untouched({}),
     fac_date |-> Untouched(<<NaT, NaT>>),
     rack_date_global |-> Untouched(<<NaT, NaT>>),
     rack_fac_select_filtered |-> Untouched({})]

Changed(ss) == Cardinality({key \in DOMAIN ss : ss[key].touched})

\* ------------------------------------------------------------------- page
\* One element handed to the page: a table or a chart's data, and the
\* numbers (metric values, y-axis domain) that go with it.
Element(tab, el, data, y) == [tab |-> tab, el |-> el, data |-> data, y |-> y]

Shown(el) == \E i \in 1..Len(page) : page[i].el = el

ElementOf(el) == page[CHOOSE i \in 1..Len(page) : page[i].el = el]

\* ------------------------------------------------- tab 1: datacenters
Tab1Unset == [selected_dc |-> {}, date_range |-> <<NaT, NaT>>, df_dc |-> <<>>]

Tab1Names(fetched, ss) ==
    LET datacenters == Unique(Col(fetched, "DATACENTER_ID"))
        selected_dc == Widget(ss.dc_select, Range(datacenters))
        date_range == Widget(ss.dc_date, DefaultRange(fetched))
    IN  [selected_dc |-> selected_dc,
         date_range |-> date_range,
         df_dc |-> SelectSeq(fetched, LAMBDA r :
                       /\ r.DATACENTER_ID \in selected_dc
                       /\ between(r.TIME_WINDOW, to_datetime(date_range[1]),
                                  to_datetime(date_range[2])))]

datacenter_dashboard(df) ==
    << Element(1, "dc_metrics", <<>>,
               << SeriesMean(Col(df, "PUE")), SeriesMean(Col(df, "EFFICIENCY")),
                  SeriesSum(Col(df, "TOTAL_POWER_KW")), SeriesSum(Col(df, "COOLING_KW")) >>),
       Element(1, "dc_charts", df, <<>>) >>

\* -------------------------------------------------- tab 2: facilities
\* query_fac: FACILITY_SUMMARY joined to DIM_FACILITY on FACILITY_ID.
JoinDim(rows) ==
    LET kept == SelectSeq(rows, LAMBDA r : r.FACILITY_ID \in DOMAIN DIM_FACILITY)
    IN  [i \in 1..Len(kept) |->
            [FACILITY_ID |-> kept[i].FACILITY_ID,
             TIME_WINDOW |-> kept[i].TIME_WINDOW,
             TOTAL_POWER_KW |-> kept[i].TOTAL_POWER_KW,
             AVG_TEMP_C |-> kept[i].AVG_TEMP_C,
             RACKS_ACTIVE |-> kept[i].RACKS_ACTIVE,
             PUE |-> kept[i].PUE,
             DATACENTER_ID |-> DIM_FACILITY[kept[i].FACILITY_ID]]]

\* The radio's branch: one datacenter (selectbox) or a set of facilities
\* (multiselect).
EntityFilter(df, filter_type, selected_dc, selected_fac) ==
    IF filter_type = "Datacenter"
    THEN SelectSeq(df, LAMBDA r : r.DATACENTER_ID = selected_dc)
    ELSE SelectSeq(df, LAMBDA r : r.FACILITY_ID \in selected_fac)

\* df.groupby("FACILITY_ID", as_index=False).agg(sum / mean), then the
\* AVG_POWER_PER_RACK column.
PowerPerRackNoGuard(total, racks) == Div(total, racks)

PowerPerRack(total, racks) == Div(total, Replace0(racks))

FacilityPerfMeanPower(df_summary) ==
    LET keys == SortedKeys(Range(Col(df_summary, "FACILITY_ID")))
    IN  [i \in 1..Len(keys) |->
            LET g == Group(df_summary, "FACILITY_ID", keys[i])
                total == SeriesMean(Col(g, "TOTAL_POWER_KW"))
                racks == SeriesMean(Col(g, "RACKS_ACTIVE"))
            IN  [FACILITY_ID |-> keys[i],
                 TOTAL_POWER_KW |-> total,
                 AVG_TEMP_C |-> SeriesMean(Col(g, "AVG_TEMP_C")),
                 RACKS_ACTIVE |-> racks,
                 PUE |-> SeriesMean(Col(g, "PUE")),
                 AVG_POWER_PER_RACK |-> PowerPerRack(total, racks)]]

FacilityPerf(df_summary) ==
    LET keys == SortedKeys(Range(Col(df_summary, "FACILITY_ID")))
    IN  [i \in 1..Len(keys) |->
            LET g == Group(df_summary, "FACILITY_ID", keys[i])
                total == SeriesSum(Col(g, "TOTAL_POWER_KW"))
                racks == SeriesMean(Col(g, "RACKS_ACTIVE"))
            IN  [FACILITY_ID |-> keys[i],
                 TOTAL_POWER_KW |-> total,
                 AVG_TEMP_C |-> SeriesMean(Col(g, "AVG_TEMP_C")),
                 RACKS_ACTIVE |-> racks,
                 PUE |-> SeriesMean(Col(g, "PUE")),
                 AVG_POWER_PER_RACK |-> PowerPerRack(total, racks)]]

\* df_fac["AVG_POWER_PER_RACK"] = TOTAL_POWER_KW / RACKS_ACTIVE.replace(0, pd.NA)
WithPowerPerRack(df) ==
    [i \in 1..Len(df) |->
        [FACILITY_ID |-> df[i].FACILITY_ID,
         TIME_WINDOW |-> df[i].TIME_WINDOW,
         TOTAL_POWER_KW |-> df[i].TOTAL_POWER_KW,
         AVG_TEMP_C |-> df[i].AVG_TEMP_C,
         RACKS_ACTIVE |-> df[i].RACKS_ACTIVE,
         PUE |-> df[i].PUE,
         DATACENTER_ID |-> df[i].DATACENTER_ID,
         AVG_POWER_PER_RACK |-> PowerPerRack(Int2V(df[i].TOTAL_POWER_KW),
                                             Int2V(df[i].RACKS_ACTIVE))]]

\* The y-scale domains of power_chart and temp_chart.
PowerDomain(df) ==
    << Scale(SeriesMin(Col(df, "AVG_POWER_PER_RACK")), 9, 10),
       Scale(SeriesMax(Col(df, "AVG_POWER_PER_RACK")), 21, 20) >>

FacTempDomain(df) ==
    << Plus(SeriesMin(ColV(df, "AVG_TEMP_C")), -1),
       Plus(SeriesMax(ColV(df, "AVG_TEMP_C")), 1) >>

\* The efficiency rating of a PUE (in hundredths).
classify_efficiency_le(pue) ==
    IF ~Less(Int2V(130), pue) THEN "Excellent"
    ELSE IF Less(pue, Int2V(160)) THEN "Good"
    ELSE IF Less(pue, Int2V(200)) THEN "Moderate"
    ELSE "Poor"

classify_efficiency(pue) ==
    IF Less(pue, Int2V(130)) THEN "Excellent"
    ELSE IF Less(pue, Int2V(160)) THEN "Good"
    ELSE IF Less(pue, Int2V(200)) THEN "Moderate"
    ELSE "Poor"

\* df_fac.groupby("FACILITY_ID").agg(avg_pue=("PUE", "mean")).sort_values("avg_pue")
PueSummary(df) ==
    LET keys == SortedKeys(Range(Col(df, "FACILITY_ID")))
    IN  SortAscPue([i \in 1..Len(keys) |->
            [FACILITY_ID |-> keys[i],
             avg_pue |-> SeriesMean(Col(Group(df, "FACILITY_ID", keys[i]), "PUE"))]])

\* pue_summary["Efficiency Rating"] = pue_summary["avg_pue"].apply(classify_efficiency)
Rated(pue_summary) ==
    [i \in 1..Len(pue_summary) |->
        [FACILITY_ID |-> pue_summary[i].FACILITY_ID,
         avg_pue |-> pue_summary[i].avg_pue,
         Efficiency_Rating |-> classify_efficiency(pue_summary[i].avg_pue)]]

Tab2Unset ==
    [filter_type |-> "Facility", selected_dc |-> 0, selected_fac |-> {},
     date_range |-> <<NaT, NaT>>, df_fac |-> <<>>, facility_perf |-> <<>>,
     pue_summary |-> <<>>]

\* The frame after the entity filter, on which the date picker's default
\* is computed.
Tab2Entity(fetched, ss) ==
    LET datacenters == Unique(Col(fetched, "DATACENTER_ID"))
        facilities == Unique(Col(fetched, "FACILITY_ID"))
        filter_type == Widget(ss.fac_filter_type, "Facility")
        selected_dc == Widget(ss.fac_dc, IF datacenters = <<>> THEN 0 ELSE datacenters[1])
        selected_fac == Widget(ss.fac_facility, Range(facilities))
    IN  [filter_type |-> filter_type, selected_dc |-> selected_dc,
         selected_fac |-> selected_fac,
         df_fac |-> EntityFilter(fetched, filter_type, selected_dc, selected_fac)]

\* The frame the Facility Performance Summary is aggregated from.
SummaryFrame(df_fac, date_range) == DateFilter(df_fac, date_range)

Tab2Names(fetched, ss) ==
    LET e == Tab2Entity(fetched, ss)
        date_range == Widget(ss.fac_date, DefaultRange(e.df_fac))
        filtered == DateFilter(e.df_fac, date_range)
        df_summary == SummaryFrame(filtered, date_range)
        df_fac == WithPowerPerRack(filtered)
    IN  [filter_type |-> e.filter_type, selected_dc |-> e.selected_dc,
         selected_fac |-> e.selected_fac, date_range |-> date_range,
         df_fac |-> df_fac,
         facility_perf |-> FacilityPerf(df_summary),
         pue_summary |-> Rated(PueSummary(df_fac))]

Tab2Page(t) ==
    << Element(2, "facility_perf", t.facility_perf, <<>>),
       Element(2, "combined_chart", t.df_fac,
               PowerDomain(t.df_fac) \o FacTempDomain(t.df_fac)),
       Element(2, "chart_eff", PueSummary(t.df_fac), <<>>),
       Element(2, "rating_table", t.pue_summary, <<>>),
       Element(2, "fac_preview", HeadRows(SortDesc(t.df_fac), PreviewRows), <<>>) >>

\* ------------------------------------------------------ tab 3: racks
\* (AVG_TEMP_C > 30) | (EFFICIENCY < 0.62)
IsAnomalyAnd(r) == r.AVG_TEMP_C > 30 /\ r.EFFICIENCY < 62

IsAnomaly(r) == r.AVG_TEMP_C > 30 \/ r.EFFICIENCY < 62

\* The anomalous rows, with the six columns the alerts table keeps.
Alerts(df_rack_filtered) ==
    LET hit == SelectSeq(df_rack_filtered, IsAnomaly)
    IN  [i \in 1..Len(hit) |->
            [FACILITY_ID |-> hit[i].FACILITY_ID, RACK_ID |-> hit[i].RACK_ID,
             TIME_WINDOW |-> hit[i].TIME_WINDOW, AVG_TEMP_C |-> hit[i].AVG_TEMP_C,
             EFFICIENCY |-> hit[i].EFFICIENCY, PUE |-> hit[i].PUE]]

\* if len(alerts) > 0: the table, newest first; else: the message.
AlertsSectionAlwaysTable(alerts) ==
    <<Element(3, "alerts_table", SortDesc(alerts), <<>>)>>

AlertsSection(alerts) ==
    IF Len(alerts) > 0
    THEN <<Element(3, "alerts_table", SortDesc(alerts), <<>>)>>
    ELSE <<Element(3, "no_anomalies_info", <<>>, <<>>)>>

\* df_rack_filtered.groupby("FACILITY_ID").agg(mean ...).reset_index()
KpiSummary(df) ==
    LET keys == SortedKeys(Range(Col(df, "FACILITY_ID")))
    IN  [i \in 1..Len(keys) |->
            LET g == Group(df, "FACILITY_ID", keys[i])
            IN  [Facility_ID |-> keys[i],
                 Avg_Temp |-> SeriesMean(Col(g, "AVG_TEMP_C")),
                 Avg_Power |-> SeriesMean(Col(g, "AVG_POWER_KW")),
                 Avg_Efficiency |-> SeriesMean(Col(g, "EFFICIENCY")),
                 Avg_PUE |-> SeriesMean(Col(g, "PUE"))]]

\* kpi_summary.round(3); EFFICIENCY and PUE are held in hundredths.
RoundKpi(kpi) ==
    [i \in 1..Len(kpi) |->
        [Facility_ID |-> kpi[i].Facility_ID,
         Avg_Temp |-> Round3(kpi[i].Avg_Temp, 1),
         Avg_Power |-> Round3(kpi[i].Avg_Power, 1),
         Avg_Efficiency |-> Round3(kpi[i].Avg_Efficiency, 100),
         Avg_PUE |-> Round3(kpi[i].Avg_PUE, 100)]]

\* The y-scale domains of chart_temp and chart_eff_trend: min and max of
\* the column if the frame has rows, else 0.0 and 1.0; then the margin.
RackTempDomainNoGuard(df) ==
    << Plus(SeriesMin(ColV(df, "AVG_TEMP_C")), -1),
       Plus(SeriesMax(ColV(df, "AVG_TEMP_C")), 1) >>

RackTempDomain(df) ==
    LET temp_min == IF Len(df) # 0 THEN SeriesMin(ColV(df, "AVG_TEMP_C")) ELSE Int2V(0)
        temp_max == IF Len(df) # 0 THEN SeriesMax(ColV(df, "AVG_TEMP_C")) ELSE Int2V(1)
    IN  <<Plus(temp_min, -1), Plus(temp_max, 1)>>

RackEffDomain(df) ==
    LET eff_min == IF Len(df) # 0 THEN SeriesMin(ColV(df, "EFFICIENCY")) ELSE Int2V(0)
        eff_max == IF Len(df) # 0 THEN SeriesMax(ColV(df, "EFFICIENCY")) ELSE Int2V(100)
    IN  <<Plus(eff_min, -5), Plus(eff_max, 5)>>

Tab3Unset ==
    [date_range |-> <<NaT, NaT>>, df_rack_filtered |-> <<>>, alerts |-> <<>>,
     kpi_summary |-> <<>>, selected_facilities |-> {}, df_fac_filtered |-> <<>>]

Tab3NamesFacilityFirst(fetched, ss) ==
    LET date_range == Widget(ss.rack_date_global, DefaultRange(fetched))
        df_rack_filtered == DateFilter(fetched, date_range)
        facilities == Unique(Col(df_rack_filtered, "FACILITY_ID"))
        selected_facilities == Widget(ss.rack_fac_select_filtered, Range(facilities))
        df_fac_filtered == SelectSeq(df_rack_filtered, LAMBDA r :
                               r.FACILITY_ID \in selected_facilities)
    IN  [date_range |-> date_range,
         df_rack_filtered |-> df_rack_filtered,
         alerts |-> Alerts(df_fac_filtered),
         kpi_summary |-> KpiSummary(df_fac_filtered),
         selected_facilities |-> selected_facilities,
         df_fac_filtered |-> df_fac_filtered]

Tab3Names(fetched, ss) ==
    LET date_range == Widget(ss.rack_date_global, DefaultRange(fetched))
        df_rack_filtered == DateFilter(fetched, date_range)
        facilities == Unique(Col(df_rack_filtered, "FACILITY_ID"))
        selected_facilities == Widget(ss.rack_fac_select_filtered, Range(facilities))
    IN  [date_range |-> date_range,
         df_rack_filtered |-> df_rack_filtered,
         alerts |-> Alerts(df_rack_filtered),
         kpi_summary |-> KpiSummary(df_rack_filtered),
         selected_facilities |-> selected_facilities,
         df_fac_filtered |-> SelectSeq(df_rack_filtered, LAMBDA r :
                                 r.FACILITY_ID \in selected_facilities)]

Tab3Page(t) ==
    AlertsSection(t.alerts) \o
    << Element(3, "kpi_summary", RoundKpi(t.kpi_summary), <<>>),
       Element(3, "chart_temp", t.df_fac_filtered, RackTempDomain(t.df_fac_filtered)),
       Element(3, "chart_eff_trend", t.df_fac_filtered, RackEffDomain(t.df_fac_filtered)) >>

\* ----------------------------------------------------------------- script
TypeOK ==
    /\ pc \in {"tab1", "tab2", "tab3", "done", "failed"}
    /\ error \in {"none", "query_dc", "query_fac", "query_rack",
                  "dc_date", "fac_date", "rack_date_global"}
    /\ Changed(session_state) <= MaxChanged

\* The first run of the script, on the given query results.
Start(dc, fac, rack) ==
    /\ DATACENTER_EFFICIENCY = dc
    /\ FACILITY_SUMMARY = fac
    /\ RACK_PERFORMANCE = rack
    /\ session_state = InitialSession
    /\ pc = "tab1"
    /\ queries = <<>>
    /\ error = "none"
    /\ page = <<>>
    /\ tab1 = Tab1Unset
    /\ tab2 = Tab2Unset
    /\ tab3 = Tab3Unset
    /\ last_page = [valid |-> FALSE, page |-> <<>>]

\* One table varies over the rows above while the other two hold rows at
\* both midnights and at later hours: the datacenter table here, the
\* facility table in InitFac, the rack table in InitRack.  A warehouse with
\* no rows at all is a start too.
FixedDatacenters == DatacenterRows
FixedFacilities == PickRows(FacilityRows, {1, 4, 5, 7}, 1)
FixedRacks == PickRows(RackRows, {1, 3, 4, 6}, 1)

Init ==
    \/ \E dc \in Tables(DatacenterRows) : Start(dc, FixedFacilities, FixedRacks)
    \/ Start(<<>>, <<>>, <<>>)

InitFac ==
    \/ \E fac \in Tables(FacilityRows) : Start(FixedDatacenters, fac, FixedRacks)
    \/ Start(<<>>, <<>>, <<>>)

InitRack ==
    \/ \E rack \in Tables(RackRows) : Start(FixedDatacenters, FixedFacilities, rack)
    \/ Start(<<>>, <<>>, <<>>)

\* A facility table as long as the preview, or longer by up to a day of
\* rows.
InitPreview ==
    \/ \E n \in PreviewRows..(PreviewRows + 2 * TicksPerDay - 1) :
          Start(FixedDatacenters, HourlyRows(n), FixedRacks)
    \/ Start(<<>>, <<>>, <<>>)

\* An exception is not caught anywhere: the render ends where it is raised.
RaiseSwallowed(what, next) == error' = what /\ pc' = next

Raise(what, next) == error' = what /\ pc' = "failed"

\* session.sql(query).to_pandas(): the query is issued, once.
Issue(query) == queries' = Append(queries, query)

\* --- with tab1: query_dc, the filters, datacenter_dashboard(df_dc)
Tab1QueryFails ==
    /\ pc = "tab1"
    /\ Issue("query_dc")
    /\ Raise("query_dc", "tab2")
    /\ UNCHANGED <<warehouse, session_state, page, tab1, tab2, tab3, last_page>>

\* st.date_input is handed NaT, NaT when the frame has no rows; whether it
\* raises is the widget library's business, so both outcomes are kept.
Tab1DateInputFails ==
    /\ pc = "tab1"
    /\ DATACENTER_EFFICIENCY = <<>>
    /\ Issue("query_dc")
    /\ Raise("dc_date", "tab2")
    /\ UNCHANGED <<warehouse, session_state, page, tab1, tab2, tab3, last_page>>

Tab1 ==
    /\ pc = "tab1"
    /\ Issue("query_dc")
    /\ tab1' = Tab1Names(DATACENTER_EFFICIENCY, session_state)
    /\ page' = page \o datacenter_dashboard(tab1'.df_dc)
    /\ pc' = "tab2"
    /\ UNCHANGED <<warehouse, session_state, error, tab2, tab3, last_page>>

\* --- with tab2: query_fac, the filters, the five sections
Tab2QueryFails ==
    /\ pc = "tab2"
    /\ Issue("query_fac")
    /\ Raise("query_fac", "tab3")
    /\ UNCHANGED <<warehouse, session_state, page, tab1, tab2, tab3, last_page>>

Tab2DateInputFails ==
    /\ pc = "tab2"
    /\ Tab2Entity(JoinDim(FACILITY_SUMMARY), session_state).df_fac = <<>>
    /\ Issue("query_fac")
    /\ Raise("fac_date", "tab3")
    /\ UNCHANGED <<warehouse, session_state, page, tab1, tab2, tab3, last_page>>

Tab2 ==
    /\ pc = "tab2"
    /\ Issue("query_fac")
    /\ tab2' = Tab2Names(JoinDim(FACILITY_SUMMARY), session_state)
    /\ page' = page \o Tab2Page(tab2')
    /\ pc' = "tab3"
    /\ UNCHANGED <<warehouse, session_state, error, tab1, tab3, last_page>>

\* --- with tab3: query_rack, the date filter, alerts, KPIs, trend charts
Tab3QueryFails ==
    /\ pc = "tab3"
    /\ Issue("query_rack")
    /\ Raise("query_rack", "done")
    /\ UNCHANGED <<warehouse, session_state, page, tab1, tab2, tab3, last_page>>

Tab3DateInputFails ==
    /\ pc = "tab3"
    /\ RACK_PERFORMANCE = <<>>
    /\ Issue("query_rack")
    /\ Raise("rack_date_global", "done")
    /\ UNCHANGED <<warehouse, session_state, page, tab1, tab2, tab3, last_page>>

Tab3 ==
    /\ pc = "tab3"
    /\ Issue("query_rack")
    /\ tab3' = Tab3Names(RACK_PERFORMANCE, session_state)
    /\ page' = page \o Tab3Page(tab3')
    /\ pc' = "done"
    /\ UNCHANGED <<warehouse, session_state, error, tab1, tab2, last_page>>

\* --- the framework runs the script again, from the top, in a fresh
\* namespace and on an empty page
FreshPageKeepsOld(old) == old

FreshPage(old) == <<>>

StartRender ==
    /\ pc' = "tab1"
    /\ queries' = <<>>
    /\ error' = "none"
    /\ page' = FreshPage(page)
    /\ tab1' = Tab1Unset
    /\ tab2' = Tab2Unset
    /\ tab3' = Tab3Unset

\* A rerun with nothing changed: the page just shown is what the next one
\* is compared with.
Rerun ==
    /\ pc \in {"done", "failed"}
    /\ StartRender
    /\ last_page' = IF pc = "done" THEN [valid |-> TRUE, page |-> page]
                    ELSE last_page
    /\ UNCHANGED <<warehouse, session_state>>

\* The widgets a complete run puts on the page: the radio shows one of its
\* two selectors.
Rendered ==
    {"dc_select", "dc_date", "fac_filter_type", "fac_date", "rack_date_global",
     "rack_fac_select_filtered"}
    \cup (IF Widget(session_state.fac_filter_type, "Facility") = "Datacenter"
          THEN {"fac_dc"} ELSE {"fac_facility"})

\* The values the user can give each widget.
Options(key) ==
    CASE key = "dc_select" -> SUBSET Range(Col(DATACENTER_EFFICIENCY, "DATACENTER_ID"))
      [] key = "dc_date" -> DateRanges
      [] key = "fac_filter_type" -> {"Datacenter", "Facility"}
      [] key = "fac_dc" -> Range(Col(JoinDim(FACILITY_SUMMARY), "DATACENTER_ID"))
      [] key = "fac_facility" -> SUBSET Range(Col(FACILITY_SUMMARY, "FACILITY_ID"))
      [] key = "fac_date" -> DateRanges
      [] key = "rack_date_global" -> DateRanges
      [] key = "rack_fac_select_filtered" ->
            SUBSET Range(Col(tab3.df_rack_filtered, "FACILITY_ID"))

\* The user changes one widget of a page that has been rendered to its end;
\* the framework stores the value under the widget's key and runs the script
\* again.  (After a run that failed, the same is reached by a rerun.)
Interact ==
    /\ pc = "done"
    /\ \E key \in Rendered :
          /\ session_state[key].touched \/ Changed(session_state) < MaxChanged
          /\ \E v \in Options(key) :
                /\ session_state[key] # [touched |-> TRUE, value |-> v]
                /\ session_state' =
                       [session_state EXCEPT ![key] = [touched |-> TRUE, value |-> v]]
    /\ StartRender
    /\ last_page' = [valid |-> FALSE, page |-> <<>>]
    /\ UNCHANGED warehouse

Next ==
    \/ Tab1QueryFails \/ Tab1DateInputFails \/ Tab1
    \/ Tab2QueryFails \/ Tab2DateInputFails \/ Tab2
    \/ Tab3QueryFails \/ Tab3DateInputFails \/ Tab3
    \/ Rerun \/ Interact

Spec == Init /\ [][Next]_vars

SpecFac == InitFac /\ [][Next]_vars

SpecRack == InitRack /\ [][Next]_vars

SpecPreview == InitPreview /\ [][Next]_vars

\* ================================================================ claims
Tab1Ran == Shown("dc_charts")
Tab2Ran == Shown("facility_perf")
Tab3Ran == pc = "done"

\* The sum of column c over the rows of df at the positions in I.
RECURSIVE SumAt(_, _, _)
SumAt(df, I, c) ==
    IF I = {} THEN 0
    ELSE LET i == CHOOSE j \in I : TRUE
         IN  df[i][c] + SumAt(df, I \ {i}, c)

RowsOf(df, c, key) == {i \in 1..Len(df) : df[i][c] = key}

\* v is the exact quotient n / d.
IsQuotient(v, n, d) == v.k = "num" /\ v.num * d = n * v.den

AlertRow(r) ==
    [FACILITY_ID |-> r.FACILITY_ID, RACK_ID |-> r.RACK_ID,
     TIME_WINDOW |-> r.TIME_WINDOW, AVG_TEMP_C |-> r.AVG_TEMP_C,
     EFFICIENCY |-> r.EFFICIENCY, PUE |-> r.PUE]

C2_AnomalyIsOr ==
    Tab3Ran =>
        /\ \A i \in 1..Len(tab3.df_rack_filtered) :
              LET r == tab3.df_rack_filtered[i]
              IN  AlertRow(r) \in Range(tab3.alerts)
                      <=> (r.AVG_TEMP_C > 30 \/ r.EFFICIENCY < 62)
        /\ Range(tab3.alerts) \subseteq
              {AlertRow(tab3.df_rack_filtered[i]) : i \in 1..Len(tab3.df_rack_filtered)}

\* Alerts holding a record that is only too hot and one that is only
\* inefficient, while a record that is neither is left out.
C2_Witness ==
    /\ Tab3Ran
    /\ \E a \in Range(tab3.alerts) : a.AVG_TEMP_C > 30 /\ a.EFFICIENCY >= 62
    /\ \E a \in Range(tab3.alerts) : a.AVG_TEMP_C <= 30 /\ a.EFFICIENCY < 62
    /\ \E r \in Range(tab3.df_rack_filtered) :
          /\ r.AVG_TEMP_C <= 30 /\ r.EFFICIENCY >= 62
          /\ AlertRow(r) \notin Range(tab3.alerts)

\* ---------------------------------------------------------------- C3
\* C3: in each tab, among the rows that pass the entity selection, a row
\* whose TIME_WINDOW is exactly the start date (its midnight) or exactly
\* the end date is retained, and a row is removed only if its TIME_WINDOW
\* is before the start date or after the end date.
Keys(df, a, b) == {<<df[i][a], df[i][b]>> : i \in 1..Len(df)}

Inclusive(r, inDf, date_range) ==
    LET start == date_range[1] * TicksPerDay
        end == date_range[2] * TicksPerDay
    IN  /\ (r.TIME_WINDOW = start \/ r.TIME_WINDOW = end) => inDf
        /\ ~inDf => (r.TIME_WINDOW < start \/ r.TIME_WINDOW > end)

C3_DateRangeInclusive ==
    /\ Tab1Ran =>
          \A r \in Range(DATACENTER_EFFICIENCY) :
              r.DATACENTER_ID \in tab1.selected_dc =>
                  Inclusive(r, r \in Range(tab1.df_dc), tab1.date_range)
    /\ Tab2Ran =>
          \A r \in Range(JoinDim(FACILITY_SUMMARY)) :
              (IF tab2.filter_type = "Datacenter"
               THEN r.DATACENTER_ID = tab2.selected_dc
               ELSE r.FACILITY_ID \in tab2.selected_fac) =>
                  Inclusive(r, <<r.FACILITY_ID, r.TIME_WINDOW>>
                                   \in Keys(tab2.df_fac, "FACILITY_ID", "TIME_WINDOW"),
                            tab2.date_range)
    /\ Tab3Ran =>
          \A r \in Range(RACK_PERFORMANCE) :
              Inclusive(r, r \in Range(tab3.df_rack_filtered), tab3.date_range)

\* The rack tab has kept a row exactly at the start date and a row exactly
\* at the end date, the two dates differing, and has removed another row.
C3_Witness ==
    /\ Tab3Ran
    /\ tab3.date_range[1] # NaT
    /\ tab3.date_range[1] < tab3.date_range[2]
    /\ \E r \in Range(tab3.df_rack_filtered) :
          r.TIME_WINDOW = tab3.date_range[1] * TicksPerDay
    /\ \E r \in Range(tab3.df_rack_filtered) :
          r.TIME_WINDOW = tab3.date_range[2] * TicksPerDay
    /\ \E r \in Range(RACK_PERFORMANCE) : r \notin Range(tab3.df_rack_filtered)

\* ---------------------------------------------------------------- C4
\* C4: AVG_POWER_PER_RACK is the exact quotient TOTAL_POWER_KW /
\* RACKS_ACTIVE when RACKS_ACTIVE is not 0 and the missing value pd.NA
\* when it is 0 (never an infinity, never 0 in its place), in every row of
\* the filtered facility frame and in every row of the per-facility
\* aggregate; computing it ends no render.
C4_PowerPerRack ==
    /\ error \in {"none", "query_dc", "query_fac", "query_rack",
                  "dc_date", "fac_date", "rack_date_global"}
    /\ Tab2Ran =>
          /\ \A r \in Range(tab2.df_fac) :
                IF r.RACKS_ACTIVE # 0
                THEN IsQuotient(r.AVG_POWER_PER_RACK, r.TOTAL_POWER_KW, r.RACKS_ACTIVE)
                ELSE r.AVG_POWER_PER_RACK.k = "NA"
          /\ \A r \in Range(tab2.facility_perf) :
                /\ r.TOTAL_POWER_KW.k = "num" /\ r.RACKS_ACTIVE.k = "num"
                /\ IF r.RACKS_ACTIVE.num # 0
                   THEN IsQuotient(r.AVG_POWER_PER_RACK,
                                   r.TOTAL_POWER_KW.num * r.RACKS_ACTIVE.den,
                                   r.TOTAL_POWER_KW.den * r.RACKS_ACTIVE.num)
                   ELSE r.AVG_POWER_PER_RACK.k = "NA"

\* A row with 100 kW on 5 racks giving 20, a row with power on 0 racks
\* giving the missing value, and an aggregate row whose mean rack count is 0.
C4_Witness ==
    /\ Tab2Ran
    /\ \E r \in Range(tab2.df_fac) :
          /\ r.TOTAL_POWER_KW = 100 /\ r.RACKS_ACTIVE = 5
          /\ r.AVG_POWER_PER_RACK = Int2V(20)
    /\ \E r \in Range(tab2.df_fac) :
          /\ r.TOTAL_POWER_KW > 0 /\ r.RACKS_ACTIVE = 0
          /\ r.AVG_POWER_PER_RACK = NA
    /\ \E r \in Range(tab2.facility_perf) :
          /\ r.RACKS_ACTIVE = Int2V(0) /\ r.TOTAL_POWER_KW.num > 0
          /\ r.AVG_POWER_PER_RACK = NA

\* ---------------------------------------------------------------- C5
\* C5: facility_perf has exactly one row per distinct FACILITY_ID of the
\* rows it aggregates, whose TOTAL_POWER_KW is the sum and whose PUE,
\* AVG_TEMP_C and RACKS_ACTIVE are the arithmetic means over that
\* facility's rows; kpi_summary likewise has exactly one row per distinct
\* FACILITY_ID of the date-filtered rack rows.
OneRowPerKey(agg, keycol, df, dfcol) ==
    /\ {agg[i][keycol] : i \in 1..Len(agg)} = {df[i][dfcol] : i \in 1..Len(df)}
    /\ \A i, j \in 1..Len(agg) : agg[i][keycol] = agg[j][keycol] => i = j

C5_GroupBy ==
    /\ Tab2Ran =>
          /\ OneRowPerKey(tab2.facility_perf, "FACILITY_ID", tab2.df_fac, "FACILITY_ID")
          /\ \A r \in Range(tab2.facility_perf) :
                LET I == RowsOf(tab2.df_fac, "FACILITY_ID", r.FACILITY_ID)
                    n == Cardinality(I)
                IN  /\ r.TOTAL_POWER_KW = Int2V(SumAt(tab2.df_fac, I, "TOTAL_POWER_KW"))
                    /\ IsQuotient(r.PUE, SumAt(tab2.df_fac, I, "PUE"), n)
                    /\ IsQuotient(r.AVG_TEMP_C, SumAt(tab2.df_fac, I, "AVG_TEMP_C"), n)
                    /\ IsQuotient(r.RACKS_ACTIVE, SumAt(tab2.df_fac, I, "RACKS_ACTIVE"), n)
    /\ Tab3Ran =>
          /\ OneRowPerKey(tab3.kpi_summary, "Facility_ID",
                          tab3.df_rack_filtered, "FACILITY_ID")
          /\ \A r \in Range(tab3.kpi_summary) :
                LET I == RowsOf(tab3.df_rack_filtered, "FACILITY_ID", r.Facility_ID)
                IN  IsQuotient(r.Avg_PUE, SumAt(tab3.df_rack_filtered, I, "PUE"),
                               Cardinality(I))

\* Two facilities with two rows each, power (10, 20) and (30, 40): sums 30
\* and 70.
C5_Witness ==
    /\ Tab2Ran
    /\ Len(tab2.df_fac) = 4
    /\ Len(tab2.facility_perf) = 2
    /\ tab2.facility_perf[1].TOTAL_POWER_KW = Int2V(30)
    /\ tab2.facility_perf[2].TOTAL_POWER_KW = Int2V(70)
    /\ tab2.facility_perf[1].AVG_TEMP_C # tab2.facility_perf[2].AVG_TEMP_C

C7_AlertsOrMessage ==
    Tab3Ran =>
        /\ error = "none"
        /\ LET anomalous == {r \in Range(tab3.df_rack_filtered) :
                                r.AVG_TEMP_C > 30 \/ r.EFFICIENCY < 62}
           IN  IF anomalous = {}
               THEN Shown("no_anomalies_info") /\ ~Shown("alerts_table")
               ELSE /\ Shown("alerts_table") /\ ~Shown("no_anomalies_info")
                    /\ LET t == ElementOf("alerts_table").data
                       IN  /\ Range(t) = {AlertRow(r) : r \in anomalous}
                           /\ Len(t) = Cardinality(anomalous)
                           /\ \A i, j \in 1..Len(t) :
                                 i < j => t[i].TIME_WINDOW >= t[j].TIME_WINDOW
        /\ \E i \in 1..Len(page) :
              /\ page[i].el \in {"no_anomalies_info", "alerts_table"}
              /\ i + 3 = Len(page)
              /\ page[i + 1].el = "kpi_summary"
              /\ page[i + 2].el = "chart_temp"
              /\ page[i + 3].el = "chart_eff_trend"

\* The date range leaves no rack record of a table that has some: the
\* message is shown and the render has gone on to its end.
C7_Witness ==
    /\ Tab3Ran
    /\ RACK_PERFORMANCE # <<>>
    /\ tab3.df_rack_filtered = <<>>
    /\ Shown("no_anomalies_info")
    /\ Shown("chart_eff_trend")

\* An alerts table of several records of different times, newest first.
C7_TableReached ==
    /\ Tab3Ran
    /\ Shown("alerts_table")
    /\ Len(ElementOf("alerts_table").data) >= 2
    /\ ElementOf("alerts_table").data[1].TIME_WINDOW
           > ElementOf("alerts_table").data[2].TIME_WINDOW

\* ---------------------------------------------------------------- C8
\* C8: the Facility Performance Summary depends only on the date range:
\* whatever the facility or datacenter selection, it is the aggregate,
\* one row per facility, of all fetched rows in the date range.
C8_SummaryOnlyDateFiltered ==
    Tab2Ran =>
        tab2.facility_perf =
            FacilityPerf(DateFilter(JoinDim(FACILITY_SUMMARY), tab2.date_range))

\* ---------------------------------------------------------------- C9
\* C9: in one render the queries are issued one at a time in the order
\* datacenter, facility, rack, each at most once: the queries issued so
\* far are the first tabs' queries, in order.  A failed call is the last
\* one issued, it ends the render, and the page holds nothing of the
\* failing tab or of a later one.
QueryOrder == <<"query_dc", "query_fac", "query_rack">>

C9_QueriesInOrder ==
    /\ Len(queries) <= 3
    /\ queries = SubSeq(QueryOrder, 1, Len(queries))
    /\ pc = "tab1" => queries = <<>>
    /\ pc = "tab2" => Len(queries) = 1
    /\ pc = "tab3" => Len(queries) = 2
    /\ pc = "done" => Len(queries) = 3
    /\ pc = "failed" <=> error # "none"
    /\ error \in {"query_dc", "query_fac", "query_rack"} =>
          /\ queries # <<>>
          /\ queries[Len(queries)] = error
    /\ error # "none" =>
          \A i \in 1..Len(page) : page[i].tab < Len(queries)

\* The facility query has failed: two queries issued, the render stopped,
\* only tab 1 on the page.
C9_Witness ==
    /\ pc = "failed"
    /\ error = "query_fac"
    /\ queries = <<"query_dc", "query_fac">>
    /\ page # <<>>
    /\ \A i \in 1..Len(page) : page[i].tab = 1

\* --------------------------------------------------------------- C10
\* The y-axis domain a chart gets when min and max are taken of no rows.
IsMinMaxOfNothing(y) == IsMissing(y[1]) /\ IsMissing(y[2])

\* The domains of the two layers of tab 2's combined chart.
PowerChartY == SubSeq(ElementOf("combined_chart").y, 1, 2)
TempChartY == SubSeq(ElementOf("combined_chart").y, 3, 4)

\* C10 as stated: with zero rows selected, neither the power-per-rack
\* chart nor the rack trend charts get a default domain: each gets the
\* min and max of the empty set.
C10_UnguardedInBoth ==
    /\ (Tab2Ran /\ tab2.df_fac = <<>>) =>
          IsMinMaxOfNothing(PowerChartY)
    /\ (Tab3Ran /\ tab3.df_fac_filtered = <<>>) =>
          /\ IsMinMaxOfNothing(ElementOf("chart_temp").y)
          /\ IsMinMaxOfNothing(ElementOf("chart_eff_trend").y)

\* C10 amended: with zero rows selected, the power-per-rack chart (and
\* the temperature chart layered on it) gets the min and max of the empty
\* set, no default; the rack trend charts are guarded: they get the
\* defaults 0.0 and 1.0 with their margins, [-1, 2] and [-0.05, 1.05].
C10_UnguardedInPowerChartOnly ==
    /\ (Tab2Ran /\ tab2.df_fac = <<>>) =>
          /\ IsMinMaxOfNothing(PowerChartY)
          /\ IsMinMaxOfNothing(TempChartY)
    /\ (Tab3Ran /\ tab3.df_fac_filtered = <<>>) =>
          /\ ElementOf("chart_temp").y = <<Int2V(-1), Int2V(2)>>
          /\ ElementOf("chart_eff_trend").y = <<Int2V(-5), Int2V(105)>>

\* Both tabs have drawn their charts from zero rows of non-empty tables.
C10_Witness ==
    /\ pc = "done"
    /\ FACILITY_SUMMARY # <<>> /\ tab2.df_fac = <<>>
    /\ RACK_PERFORMANCE # <<>> /\ tab3.df_fac_filtered = <<>>

\* ---------------------------------------------------------------- C11
\* The number of positions of s that hold the row r.
Count(s, r) == Cardinality({i \in DOMAIN s : s[i] = r})

Preview == ElementOf("fac_preview").data

\* C11: the facility preview table is a top-N-by-recency view of the
\* filtered dataset: it has min(50, number of filtered rows) rows, in
\* descending time_window order, every row shown is at least as recent as
\* every filtered row not shown, and it shows no row that is not in the
\* filtered set.
C11_PreviewTopN ==
    Tab2Ran =>
        LET df == tab2.df_fac
            shown == Preview
        IN  /\ Len(shown) = (IF Len(df) < PreviewRows THEN Len(df) ELSE PreviewRows)
            /\ \A i, j \in DOMAIN shown :
                   i < j => shown[i].TIME_WINDOW >= shown[j].TIME_WINDOW
            /\ \A k \in DOMAIN shown : Count(shown, shown[k]) <= Count(df, shown[k])
            /\ \A i \in DOMAIN df :
                   Count(shown, df[i]) < Count(df, df[i]) =>
                      \A k \in DOMAIN shown :
                         shown[k].TIME_WINDOW >= df[i].TIME_WINDOW

\* More than 50 rows pass the filters, the preview shows 50 of them, and a
\* row left out is of the same time bucket as the last row shown.
C11_Witness ==
    /\ Tab2Ran
    /\ Len(tab2.df_fac) > PreviewRows
    /\ Len(Preview) = PreviewRows
    /\ \E i \in DOMAIN tab2.df_fac :
          /\ Count(Preview, tab2.df_fac[i]) = 0
          /\ tab2.df_fac[i].TIME_WINDOW = Preview[PreviewRows].TIME_WINDOW
    /\ tab2.df_fac[1].TIME_WINDOW < tab2.df_fac[Len(tab2.df_fac)].TIME_WINDOW

\* Fewer than 50 rows pass the filters and the preview shows them all.
C11_AllShown ==
    /\ Tab2Ran
    /\ Len(tab2.df_fac) > 1
    /\ Len(tab2.df_fac) < PreviewRows
    /\ Len(Preview) = Len(tab2.df_fac)

\* ---------------------------------------------------------------- C12
\* No widget of the given keys has been given a value by the user.
AtDefaults(keys) == \A key \in keys : ~session_state[key].touched

\* C12: in every tab, with all its filters at their defaults (every entity
\* selected, date range from the least to the greatest date of the fetched
\* time_window values), the filter stage keeps every fetched row, whatever
\* the hour of its timestamp.
C12_DefaultsRetainAll ==
    /\ (Tab1Ran /\ AtDefaults({"dc_select", "dc_date"})) =>
           tab1.df_dc = DATACENTER_EFFICIENCY
    /\ (Tab2Ran /\ AtDefaults({"fac_filter_type", "fac_dc", "fac_facility", "fac_date"})) =>
           Keys(tab2.df_fac, "FACILITY_ID", "TIME_WINDOW")
               = Keys(JoinDim(FACILITY_SUMMARY), "FACILITY_ID", "TIME_WINDOW")
    /\ (Tab3Ran /\ AtDefaults({"rack_date_global", "rack_fac_select_filtered"})) =>
           /\ tab3.df_rack_filtered = RACK_PERFORMANCE
           /\ tab3.df_fac_filtered = RACK_PERFORMANCE

\* ---------------------------------------------------------------- C13
\* The fetched rack rows inside the date range of this render.
DatedRacks == DateFilter(RACK_PERFORMANCE, tab3.date_range)

\* The elements of the Rack Health tab among pg that have one of the names.
Tab3Part(pg, els) == SelectSeq(pg, LAMBDA e : e.tab = 3 /\ e.el \in els)

SummaryElements == {"alerts_table", "no_anomalies_info", "kpi_summary"}

TrendCharts == {"chart_temp", "chart_eff_trend"}

\* The session with the facility multiselect set to sel.
WithSelection(sel) ==
    [session_state EXCEPT !["rack_fac_select_filtered"] = [touched |-> TRUE, value |-> sel]]

\* C13: in the Rack Health tab the anomaly alerts and the per-facility KPI
\* summary are computed from the date-filtered rows alone, so that for
\* the same fetched rows and date range any other choice in the facility
\* multiselect gives the same alerts and the same summary; the rows of the
\* two trend charts are exactly the date-filtered rows whose facility is
\* in the selection.
C13_FacilitySelectFrame ==
    Tab3Ran =>
        /\ Tab3Part(page, SummaryElements)
               = AlertsSection(Alerts(DatedRacks)) \o
                 << Element(3, "kpi_summary", RoundKpi(KpiSummary(DatedRacks)), <<>>) >>
        /\ \A sel \in SUBSET Range(Col(RACK_PERFORMANCE, "FACILITY_ID")) :
               Tab3Part(Tab3Page(Tab3Names(RACK_PERFORMANCE, WithSelection(sel))),
                        SummaryElements)
                   = Tab3Part(page, SummaryElements)
        /\ tab3.selected_facilities
               = Widget(session_state.rack_fac_select_filtered,
                        Range(Col(DatedRacks, "FACILITY_ID")))
        /\ \A el \in TrendCharts :
               ElementOf(el).data
                   = SelectSeq(DatedRacks,
                               LAMBDA r : r.FACILITY_ID \in tab3.selected_facilities)

\* The user has deselected a facility that has rows in the date range, one
\* of them anomalous: the charts have fewer rows than the date range, the
\* alerts table and the KPI summary still have that facility's rows.
C13_Witness ==
    /\ Tab3Ran
    /\ session_state.rack_fac_select_filtered.touched
    /\ \E f \in Range(Col(DatedRacks, "FACILITY_ID")) \ tab3.selected_facilities :
          /\ Shown("alerts_table")
          /\ \E i \in DOMAIN ElementOf("alerts_table").data :
                ElementOf("alerts_table").data[i].FACILITY_ID = f
          /\ \E i \in DOMAIN ElementOf("kpi_summary").data :
                ElementOf("kpi_summary").data[i].Facility_ID = f
    /\ ElementOf("chart_temp").data # <<>>
    /\ Len(ElementOf("chart_temp").data) < Len(DatedRacks)

====
